---------------------------- MODULE Spec2Model ----------------------------
(***************************************************************************)
(* Economy ledger and wagering commands of the Coal / Iron Discord bot.    *)
(*                                                                         *)
(* Two versions of the economy module are modelled side by side:           *)
(*   "iron"  src/iron/src/modules/economy.py  (aiosqlite, every database   *)
(*           statement is awaited, so commands interleave between any two  *)
(*           statements)                                                   *)
(*   "coal"  src/coal/src/modules/economy.py  (sqlite3, statements are     *)
(*           synchronous, commands interleave only at `await ctx.send`)    *)
(*                                                                         *)
(* All commands share ONE database connection (bot.db).  The connection    *)
(* opens a transaction implicitly at the first INSERT/UPDATE and commit()  *)
(* commits everything executed on the connection so far, whichever command *)
(* executed it.  db is the ledger as the connection sees it (uncommitted   *)
(* changes included), disk is the committed ledger.                        *)
(***************************************************************************)
EXTENDS Integers, Sequences, FiniteSets, TLC

VARIABLES version, db, disk, task, running, now, started, ticks, faults,
          balances, board, levels, xpTask, added,
          reminders, lastrowid, poll, deleting, outbox

\* the state of the economy commands
economy == <<version, db, disk, task, running, now, started, ticks, faults>>

\* the state of the leaderboard on its own, and of the XP engine
boardVars == <<balances, board>>

xpVars == <<levels, xpTask, added>>

\* the reminders table, the polling loop, the delete command and the
\* messages sent about reminders
remVars == <<reminders, lastrowid, poll, deleting, outbox>>

\* the state of the commands that are modelled on their own
side == <<boardVars, xpVars, remVars>>

vars == <<version, db, disk, task, running, now, started, ticks, faults, side>>

---------------------------------------------------------------------------
(* Bounds of the model *)

MaxCmds == 2      \* commands started in one behaviour
MaxClockCmds == 3 \* commands started in one behaviour of the clock specification
MaxTicks == 2     \* clock advances in one behaviour
MaxFaults == 1    \* storage errors injected in one behaviour
MaxAccounts == 11 \* rows of the balances table the leaderboard reads
MaxXp == 15       \* XP handed out in one behaviour
MaxReminders == 2 \* reminders set in one behaviour

(* Sampled inputs *)

Versions == {"iron", "coal"}
Tasks == {1, 2}                  \* command invocations that can be in flight
Users == {1, 2, 3}               \* Discord user ids
Admin == 0                       \* the caller of a_give / a_take
Amounts == {0, 600, 1500}        \* give / a_give / a_take amounts and bets
Bets == Amounts \cup {-600}      \* coinflip also gets a negative stake
SlotBets == Amounts \cup {3001}  \* slots also gets a stake over its cap
DiceCounts == {0, 2, 101}        \* roll's number of dice
TickSteps == {1800, 3600, 86400} \* seconds the clock can jump
Percents == {1, 25, 26, 75, 76, 100}   \* samples of random.randint(1, 100)
Penalties == {100, 1000}         \* samples of random.randint(100, 1000)

(* Program constants *)

DefaultBalance == 1000
DailyAmount == 500
WorkCooldown == 3600
SlotsCap == 3000
RollMaxDice == 20
CoalRollMaxDice == 100
RollTargetFactor == 3
RollMultiplier == 5
CoalRollCredit == 6
RobMinTarget == 100
RobCap == 500
RobCaughtPercent == 75
WorkFailPercent == 25
NULL == -1                       \* SQL NULL in last_daily / last_work
Star == 1                        \* index of the star in the symbols list
Symbols == 1 .. 9

---------------------------------------------------------------------------
(* Ledger: the balances table *)

\* variant: a new record that starts empty instead of at the default balance
NewRow_Empty == [balance |-> 0, last_daily |-> NULL, last_work |-> NULL]

NewRow == [balance |-> DefaultBalance, last_daily |-> NULL, last_work |-> NULL]

EmptyLedger == [u \in {} |-> NewRow]

Present(d, u) == u \in DOMAIN d

\* INSERT INTO balances (user_id, balance) VALUES (?, 1000)
InsertRow(d, u) == [x \in DOMAIN d \cup {u} |-> IF x = u THEN NewRow ELSE d[x]]

\* INSERT INTO balances (user_id, balance, last_work) VALUES (?, 1000, ?)
InsertRowWork(d, u, ts) ==
    [x \in DOMAIN d \cup {u} |->
        IF x = u THEN [NewRow EXCEPT !.last_work = ts] ELSE d[x]]

\* UPDATE balances SET balance = balance + ? WHERE user_id = ?
\* (an UPDATE whose WHERE matches no row changes nothing)
UpdateBalance(d, u, delta) ==
    IF Present(d, u) THEN [d EXCEPT ![u].balance = @ + delta] ELSE d

\* variant: the claim also overwrites last_work
UpdateDaily_StampsWork(d, u, delta, day) ==
    IF Present(d, u)
    THEN [d EXCEPT ![u].balance = @ + delta, ![u].last_daily = day,
                   ![u].last_work = day]
    ELSE d

\* UPDATE balances SET balance = balance + ?, last_daily = ? WHERE user_id = ?
UpdateDaily(d, u, delta, day) ==
    IF Present(d, u)
    THEN [d EXCEPT ![u].balance = @ + delta, ![u].last_daily = day]
    ELSE d

\* UPDATE balances SET balance = balance + ?, last_work = ? WHERE user_id = ?
UpdateWork(d, u, delta, ts) ==
    IF Present(d, u)
    THEN [d EXCEPT ![u].balance = @ + delta, ![u].last_work = ts]
    ELSE d

\* What _get_balance returns for u on ledger d: the stored balance, or the
\* default of the record it creates.
BalanceOf(d, u) == IF Present(d, u) THEN d[u].balance ELSE DefaultBalance

Min(a, b) == IF a < b THEN a ELSE b

\* datetime.now().date(): the calendar day of the clock.  last_daily is
\* written with strftime('%Y-%m-%d') and read back with strptime of the same
\* format, which gives back the same calendar day, so the day number is
\* what is stored.
DateOf(s) == s \div (24 * 3600)

---------------------------------------------------------------------------
(* Command invocations *)

Idle ==
    [cmd |-> "none", pc |-> "idle", ret |-> "none", abRet |-> "none",
     author |-> 0, target |-> 0, amt |-> 0, dice |-> 0,
     gbUser |-> 0, abUser |-> 0, abAmt |-> 0,
     bal |-> 0, last |-> NULL, cap |-> 0, delta |-> 0, won |-> FALSE,
     res |-> "none", pre |-> EmptyLedger, preDisk |-> EmptyLedger, at |-> 0,
     mult |-> 0, reels |-> <<>>, total |-> 0]

\* The command returns (after its last ctx.send): only what the caller saw
\* is kept.
Finish(r, res) ==
    [r EXCEPT !.pc = "done", !.res = res, !.ret = "none", !.abRet = "none",
              !.gbUser = 0, !.abUser = 0, !.abAmt = 0, !.last = NULL,
              !.cap = 0]

\* A fresh invocation of cmd by author a: the ledger at dispatch, as the
\* connection sees it and as committed, is kept in pre and preDisk (history,
\* not program state).
Invoke(cmd, a, b, amt) ==
    [Idle EXCEPT !.cmd = cmd, !.author = a, !.target = b, !.amt = amt,
                 !.pre = db, !.preDisk = disk, !.at = now]

\* Task slots are interchangeable: a new invocation takes the lowest free
\* slot.  The record of an invocation that a storage error ended is kept
\* (history): its slot is not reused.
Free(t) ==
    \/ task[t].pc = "idle"
    \/ task[t].pc = "done" /\ task[t].res # "StorageError"

InFlight(t) == task[t].pc \notin {"idle", "done"}

CanStart(t) ==
    /\ Free(t)
    /\ \A u \in Tasks : u < t => ~Free(u)
    /\ running = 0

\* User ids are opaque to the code, so users that have no record and that
\* no invocation names are interchangeable: of those, a command takes the
\* smallest ids (and the caller's before the target's).
Known(u) ==
    \/ u = Admin
    \/ Present(db, u)
    \/ \E t \in Tasks : u \in {task[t].author, task[t].target}

Canonical(a, b) ==
    /\ \A u \in {a, b} :
         ~Known(u) => \A v \in Users : (v < u /\ ~Known(v)) => v \in {a, b}
    /\ (~Known(a) /\ ~Known(b)) => a <= b

\* The event loop runs one coroutine at a time: task t can take a step when
\* no other task is inside a stretch of code without an await.
CanRun(t) == running \in {0, t}

Set(t, r) == task' = [task EXCEPT ![t] = r]

\* The labels at which a command that has the result of its awaited
\* statement runs code of its own (a check, a draw) up to the next await.
LocalPcs ==
    {"d_check", "g_check", "cf_check", "roll_check", "slots_check",
     "w_check", "rob_check", "rob_caught", "rob_credit"}

\* iron: every statement is awaited.  A command that resumes with the
\* statement's result runs, without interruption, to its next await.
Go(t, r) == Set(t, r) /\ running' = IF r.pc \in LocalPcs THEN t ELSE 0

\* a task that is not in _add_xp
XpIdle == [pc |-> "idle", user |-> 0, amount |-> 0, level |-> 0, xp |-> 0,
           levelled_up |-> FALSE]

\* check_reminders between two polls; no `reminders delete` running
PollIdle == [pc |-> "idle", due |-> <<>>]

DeleteIdle == [pc |-> "idle", reminder_id |-> 0]

\* no leaderboard has been sent yet
NoBoard == [sent |-> FALSE, rows |-> <<>>]

Init ==
    /\ version \in Versions
    /\ db = EmptyLedger
    /\ disk = EmptyLedger
    /\ task = [t \in Tasks |-> Idle]
    /\ running = 0
    /\ now = 0
    /\ started = 0
    /\ ticks = 0
    /\ faults = 0
    /\ balances = <<>>
    /\ board = NoBoard
    /\ levels = EmptyLedger
    /\ xpTask = [t \in Tasks |-> XpIdle]
    /\ added = 0
    /\ reminders = EmptyLedger
    /\ lastrowid = 0
    /\ poll = PollIdle
    /\ deleting = DeleteIdle
    /\ outbox = <<>>


---------------------------------------------------------------------------
(* iron: Economy._get_balance and Economy._add_balance *)

\* `await self._get_balance(u)`, the caller going on at label ret.
Call(r, u, ret) == [r EXCEPT !.pc = "gb_select", !.gbUser = u, !.ret = ret]

\* `await self._add_balance(u, amount)`, the caller going on at label abRet.
CallAdd(r, u, amount, abRet) ==
    Call([r EXCEPT !.abUser = u, !.abAmt = amount, !.abRet = abRet],
         u, "ab_update")

\* Going on at a label; "return_ok" is a caller that only sends its reply.
Return(r, label) ==
    IF label = "return_ok" THEN Finish(r, "ok") ELSE [r EXCEPT !.pc = label]

\* Variant of GetBalanceSelect that never finds the record.
GetBalanceSelect_NoLookup(t) ==
    /\ task[t].pc = "gb_select"
    /\ CanRun(t)
    /\ Go(t, [task[t] EXCEPT !.pc = "gb_insert"])
    /\ UNCHANGED <<version, side, db, disk, now, started, ticks, faults>>

\* SELECT balance ...; `if row: return row['balance']`
GetBalanceSelect(t) ==
    /\ task[t].pc = "gb_select"
    /\ CanRun(t)
    /\ LET r == task[t] IN
         IF Present(db, r.gbUser)
         THEN Go(t, Return([r EXCEPT !.bal = db[r.gbUser].balance], r.ret))
         ELSE Go(t, [r EXCEPT !.pc = "gb_insert"])
    /\ UNCHANGED <<version, side, db, disk, now, started, ticks, faults>>

\* INSERT INTO balances ...: user_id is the PRIMARY KEY, so the INSERT of a
\* record that exists by now raises IntegrityError, which ends the command.
GetBalanceInsert(t) ==
    /\ task[t].pc = "gb_insert"
    /\ CanRun(t)
    /\ LET r == task[t] IN
         IF Present(db, r.gbUser)
         THEN /\ Go(t, Finish(r, "IntegrityError"))
              /\ db' = db
         ELSE /\ Go(t, [r EXCEPT !.pc = "gb_commit"])
              /\ db' = InsertRow(db, r.gbUser)
    /\ UNCHANGED <<version, side, disk, now, started, ticks, faults>>

\* `await self.bot.db.commit()`; `return 1000`
GetBalanceCommit(t) ==
    /\ task[t].pc = "gb_commit"
    /\ CanRun(t)
    /\ disk' = db
    /\ Go(t, Return([task[t] EXCEPT !.bal = DefaultBalance], task[t].ret))
    /\ UNCHANGED <<version, side, db, now, started, ticks, faults>>

\* UPDATE balances SET balance = balance + ? WHERE user_id = ?
AddBalanceUpdate(t) ==
    /\ task[t].pc = "ab_update"
    /\ CanRun(t)
    /\ db' = UpdateBalance(db, task[t].abUser, task[t].abAmt)
    /\ Go(t, [task[t] EXCEPT !.pc = "ab_commit"])
    /\ UNCHANGED <<version, side, disk, now, started, ticks, faults>>

AddBalanceCommit(t) ==
    /\ task[t].pc = "ab_commit"
    /\ CanRun(t)
    /\ disk' = db
    /\ Go(t, Return(task[t], task[t].abRet))
    /\ UNCHANGED <<version, side, db, now, started, ticks, faults>>

---------------------------------------------------------------------------
(* iron: commands *)

IronStart(t, r) ==
    /\ version = "iron"
    /\ CanStart(t)
    /\ Canonical(r.author, r.target)
    /\ Go(t, r)
    /\ started' = started + 1
    /\ UNCHANGED <<version, side, db, disk, now, ticks, faults>>

\* `target = user or ctx.author`: b is the account that is looked up
Balance(t) ==
    \E b \in Users :
        IronStart(t, Call(Invoke("balance", b, b, 0), b, "return_ok"))

Daily(t) ==
    \E a \in Users :
        IronStart(t, [Invoke("daily", a, a, 0) EXCEPT !.pc = "d_select1"])

\* SELECT balance, last_daily ...; `if not row: await self._get_balance(uid)`
DailySelect1(t) ==
    /\ task[t].pc = "d_select1"
    /\ CanRun(t)
    /\ LET r == task[t] IN
         IF Present(db, r.author)
         THEN Go(t, [r EXCEPT !.pc = "d_check",
                               !.last = db[r.author].last_daily])
         ELSE Go(t, Call(r, r.author, "d_select2"))
    /\ UNCHANGED <<version, side, db, disk, now, started, ticks, faults>>

\* the second SELECT, after _get_balance has created the record
DailySelect2(t) ==
    /\ task[t].pc = "d_select2"
    /\ CanRun(t)
    /\ Present(db, task[t].author)
    /\ Go(t, [task[t] EXCEPT !.pc = "d_check",
                              !.last = db[task[t].author].last_daily])
    /\ UNCHANGED <<version, side, db, disk, now, started, ticks, faults>>

\* Variant of DailyOnCooldown that lets the day of the last claim through.
DailyOnCooldown_DayOpen(last, today) == last # NULL /\ today < last

\* `today <= last_daily`: already claimed
DailyOnCooldown(last, today) == last # NULL /\ today <= last

DailyCheck(t) ==
    /\ task[t].pc = "d_check"
    /\ CanRun(t)
    /\ LET r == task[t]
           today == DateOf(now) IN
         IF DailyOnCooldown(r.last, today)
         THEN Go(t, Finish(r, "CooldownActive"))
         ELSE Go(t, [r EXCEPT !.pc = "d_update", !.cap = today,
                               !.delta = DailyAmount])
    /\ UNCHANGED <<version, side, db, disk, now, started, ticks, faults>>

DailyUpdate(t) ==
    /\ task[t].pc = "d_update"
    /\ CanRun(t)
    /\ db' = UpdateDaily(db, task[t].author, task[t].delta, task[t].cap)
    /\ Go(t, [task[t] EXCEPT !.pc = "d_commit"])
    /\ UNCHANGED <<version, side, disk, now, started, ticks, faults>>

DailyCommit(t) ==
    /\ task[t].pc = "d_commit"
    /\ CanRun(t)
    /\ disk' = db
    /\ Go(t, Finish(task[t], "ok"))
    /\ UNCHANGED <<version, side, db, now, started, ticks, faults>>

\* give's argument checks
GiveInvalid(a, b, amount) == a = b \/ amount <= 0

\* `if bal < amount`: the funds check of give and of the wagers
\* Variant of Insufficient that refuses only an empty account.
Insufficient_OnlyEmpty(bal, amount) == bal <= 0

Insufficient(bal, amount) == bal < amount

Give(t) ==
    \E a \in Users, b \in Users, amount \in Amounts :
        IronStart(t, IF GiveInvalid(a, b, amount)
                     THEN Finish(Invoke("give", a, b, amount), "InvalidTransfer")
                     ELSE Call(Invoke("give", a, b, amount), a, "g_check"))

GiveCheck(t) ==
    /\ task[t].pc = "g_check"
    /\ CanRun(t)
    /\ LET r == task[t] IN
         IF Insufficient(r.bal, r.amt)
         THEN Go(t, Finish(r, "InsufficientFunds"))
         ELSE Go(t, Call(r, r.target, "g_debit"))
    /\ UNCHANGED <<version, side, db, disk, now, started, ticks, faults>>

GiveDebit(t) ==
    /\ task[t].pc = "g_debit"
    /\ CanRun(t)
    /\ db' = UpdateBalance(db, task[t].author, 0 - task[t].amt)
    /\ Go(t, [task[t] EXCEPT !.pc = "g_credit"])
    /\ UNCHANGED <<version, side, disk, now, started, ticks, faults>>

\* Variant of GiveCredit that pays the amount back to the sender.
GiveCredit_ToSender(t) ==
    /\ task[t].pc = "g_credit"
    /\ CanRun(t)
    /\ db' = UpdateBalance(db, task[t].author, task[t].amt + 1)
    /\ Go(t, [task[t] EXCEPT !.pc = "g_commit"])
    /\ UNCHANGED <<version, side, disk, now, started, ticks, faults>>

GiveCredit(t) ==
    /\ task[t].pc = "g_credit"
    /\ CanRun(t)
    /\ db' = UpdateBalance(db, task[t].target, task[t].amt)
    /\ Go(t, [task[t] EXCEPT !.pc = "g_commit"])
    /\ UNCHANGED <<version, side, disk, now, started, ticks, faults>>

GiveCommit(t) ==
    /\ task[t].pc = "g_commit"
    /\ CanRun(t)
    /\ disk' = db
    /\ Go(t, Finish(task[t], "ok"))
    /\ UNCHANGED <<version, side, db, now, started, ticks, faults>>


\* random.choice(['heads', 'tails']) against the caller's guess
CoinSides == {"heads", "tails"}

\* Variant of CoinflipDelta that pays twice the stake on a win.
CoinflipDelta_Double(guess, result, bet) ==
    IF guess = result THEN bet * 2 ELSE 0 - bet

CoinflipDelta(guess, result, bet) == IF guess = result THEN bet ELSE 0 - bet

Coinflip(t) ==
    \E a \in Users, bet \in Bets :
        IronStart(t, IF bet <= 0
                     THEN Finish(Invoke("coinflip", a, a, bet), "InvalidStake")
                     ELSE Call(Invoke("coinflip", a, a, bet), a, "cf_check"))

\* Variant of CoinflipCheck that takes the stake before refusing it.
CoinflipCheck_DebitFirst(t) ==
    /\ task[t].pc = "cf_check"
    /\ CanRun(t)
    /\ LET r == task[t] IN
         IF Insufficient(r.bal, r.amt)
         THEN /\ db' = UpdateBalance(db, r.author, 0 - r.amt)
              /\ Go(t, Finish(r, "InsufficientFunds"))
         ELSE /\ db' = db
              /\ \E guess \in CoinSides, result \in CoinSides :
                    Go(t, [r EXCEPT !.pc = "wager_update",
                                     !.won = (guess = result),
                                     !.delta = CoinflipDelta(guess, result,
                                                             r.amt)])
    /\ UNCHANGED <<version, side, disk, now, started, ticks, faults>>

CoinflipCheck(t) ==
    /\ task[t].pc = "cf_check"
    /\ CanRun(t)
    /\ LET r == task[t] IN
         IF Insufficient(r.bal, r.amt)
         THEN Go(t, Finish(r, "InsufficientFunds"))
         ELSE \E guess \in CoinSides, result \in CoinSides :
                Go(t, [r EXCEPT !.pc = "wager_update",
                                 !.won = (guess = result),
                                 !.delta = CoinflipDelta(guess, result, r.amt)])
    /\ UNCHANGED <<version, side, db, disk, now, started, ticks, faults>>

\* coinflip, roll and slots end alike: UPDATE balance = balance + delta
WagerUpdate(t) ==
    /\ task[t].pc = "wager_update"
    /\ CanRun(t)
    /\ db' = UpdateBalance(db, task[t].author, task[t].delta)
    /\ Go(t, [task[t] EXCEPT !.pc = "wager_commit"])
    /\ UNCHANGED <<version, side, disk, now, started, ticks, faults>>

WagerCommit(t) ==
    /\ task[t].pc = "wager_commit"
    /\ CanRun(t)
    /\ disk' = db
    /\ Go(t, Finish(task[t], "ok"))
    /\ UNCHANGED <<version, side, db, now, started, ticks, faults>>

RECURSIVE SumRolls(_, _)
SumRolls(rolls, n) == IF n = 0 THEN 0 ELSE rolls[n] + SumRolls(rolls, n - 1)

\* [random.randint(1, 6) for _ in range(dice)]
Rolls(dice) == [1 .. dice -> 1 .. 6]

RollWon(rolls, dice) == SumRolls(rolls, dice) >= dice * RollTargetFactor

\* what the rolls of dice dice can come to: the total and whether it wins
RollOutcomes(dice) ==
    {<<SumRolls(rolls, dice), RollWon(rolls, dice)>> : rolls \in Rolls(dice)}

RollDelta(won, bet) == IF won THEN bet * RollMultiplier ELSE 0 - bet

Roll(t) ==
    \E a \in Users, dice \in DiceCounts, bet \in Amounts :
        LET r == [Invoke("roll", a, a, bet) EXCEPT !.dice = dice] IN
        IronStart(t, IF dice < 1 \/ dice > RollMaxDice
                     THEN Finish(r, "InvalidDice")
                     ELSE IF bet <= 0
                     THEN Finish(r, "InvalidStake")
                     ELSE Call(r, a, "roll_check"))

RollCheck(t) ==
    /\ task[t].pc = "roll_check"
    /\ CanRun(t)
    /\ LET r == task[t] IN
         IF Insufficient(r.bal, r.amt)
         THEN Go(t, Finish(r, "InsufficientFunds"))
         ELSE \E o \in RollOutcomes(r.dice) :
                Go(t, [r EXCEPT !.pc = "wager_update", !.total = o[1],
                                !.won = o[2],
                                !.delta = RollDelta(o[2], r.amt)])
    /\ UNCHANGED <<version, side, db, disk, now, started, ticks, faults>>

\* [random.choice(symbols) for _ in range(3)]
Reels == [1 .. 3 -> Symbols]

Stars(reels) == Cardinality({i \in 1 .. 3 : reels[i] = Star})

Distinct(reels) == Cardinality({reels[i] : i \in 1 .. 3})

AnyPair(reels) ==
    reels[1] = reels[2] \/ reels[2] = reels[3] \/ reels[1] = reels[3]

\* Variant of SlotsMultiplier that tests for one star before the wild match.
SlotsMultiplier_StarFirst(reels) ==
    IF Stars(reels) = 3 THEN 100
    ELSE IF Stars(reels) = 0 /\ reels[1] = reels[2] /\ reels[2] = reels[3]
    THEN 50
    ELSE IF Stars(reels) = 1 THEN 3
    ELSE IF Stars(reels) = 1 /\ Distinct(reels) = 2 THEN 10
    ELSE IF Stars(reels) = 2 THEN 5
    ELSE IF AnyPair(reels) THEN 2
    ELSE 0

\* the if/elif chain of Economy.slots
SlotsMultiplier(reels) ==
    IF Stars(reels) = 3 THEN 100
    ELSE IF Stars(reels) = 0 /\ reels[1] = reels[2] /\ reels[2] = reels[3]
    THEN 50
    ELSE IF Stars(reels) = 1 /\ Distinct(reels) = 2 THEN 10
    ELSE IF Stars(reels) = 2 THEN 5
    ELSE IF Stars(reels) = 1 THEN 3
    ELSE IF AnyPair(reels) THEN 2
    ELSE 0

\* the multipliers the reels can come to
SlotsMultipliers == {SlotsMultiplier(reels) : reels \in Reels}

\* delta = bet * multiplier - bet if multiplier else -bet
SlotsDelta(bet, multiplier) ==
    IF multiplier # 0 THEN bet * multiplier - bet ELSE 0 - bet

Slots(t) ==
    \E a \in Users, bet \in SlotBets :
        IronStart(t, IF bet <= 0
                     THEN Finish(Invoke("slots", a, a, bet), "InvalidStake")
                     ELSE IF bet > SlotsCap
                     THEN Finish(Invoke("slots", a, a, bet), "StakeTooLarge")
                     ELSE Call(Invoke("slots", a, a, bet), a, "slots_check"))

SlotsCheck(t) ==
    /\ task[t].pc = "slots_check"
    /\ CanRun(t)
    /\ LET r == task[t] IN
         IF Insufficient(r.bal, r.amt)
         THEN Go(t, Finish(r, "InsufficientFunds"))
         ELSE \E multiplier \in SlotsMultipliers :
                LET delta == SlotsDelta(r.amt, multiplier) IN
                Go(t, [r EXCEPT !.pc = "wager_update", !.won = (delta > 0),
                                 !.delta = delta, !.mult = multiplier])
    /\ UNCHANGED <<version, side, db, disk, now, started, ticks, faults>>

Work(t) ==
    \E a \in Users :
        IronStart(t, [Invoke("work", a, a, 0) EXCEPT !.pc = "w_select1"])

WorkSelect1(t) ==
    /\ task[t].pc = "w_select1"
    /\ CanRun(t)
    /\ LET r == task[t] IN
         IF Present(db, r.author)
         THEN Go(t, [r EXCEPT !.pc = "w_check",
                               !.last = db[r.author].last_work])
         ELSE Go(t, Call(r, r.author, "w_select2"))
    /\ UNCHANGED <<version, side, db, disk, now, started, ticks, faults>>

WorkSelect2(t) ==
    /\ task[t].pc = "w_select2"
    /\ CanRun(t)
    /\ Present(db, task[t].author)
    /\ Go(t, [task[t] EXCEPT !.pc = "w_check",
                              !.last = db[task[t].author].last_work])
    /\ UNCHANGED <<version, side, db, disk, now, started, ticks, faults>>

\* last_work is written with strftime('%Y-%m-%d %H:%M:%S.%f') and parsed
\* back with the same format, so the parse never fails and gives the time
\* that was written.
\* Variant of WorkOnCooldown that still refuses at exactly 3600 seconds.
WorkOnCooldown_Inclusive(last, time) ==
    last # NULL /\ time - last <= WorkCooldown

WorkOnCooldown(last, time) == last # NULL /\ time - last < WorkCooldown

\* samples of random.randint(50, 500)
WorkEarnings == {50, 500}

WorkCheck(t) ==
    /\ task[t].pc = "w_check"
    /\ CanRun(t)
    /\ LET r == task[t] IN
         IF WorkOnCooldown(r.last, now)
         THEN Go(t, Finish(r, "CooldownActive"))
         ELSE \E earnings \in WorkEarnings, p \in Percents :
                LET won == p > WorkFailPercent IN
                Go(t, [r EXCEPT !.pc = "w_update", !.cap = now, !.won = won,
                                 !.delta = IF won THEN earnings
                                           ELSE 0 - earnings])
    /\ UNCHANGED <<version, side, db, disk, now, started, ticks, faults>>

WorkUpdate(t) ==
    /\ task[t].pc = "w_update"
    /\ CanRun(t)
    /\ db' = UpdateWork(db, task[t].author, task[t].delta, task[t].cap)
    /\ Go(t, [task[t] EXCEPT !.pc = "w_commit"])
    /\ UNCHANGED <<version, side, disk, now, started, ticks, faults>>

WorkCommit(t) ==
    /\ task[t].pc = "w_commit"
    /\ CanRun(t)
    /\ disk' = db
    /\ Go(t, Finish(task[t], "ok"))
    /\ UNCHANGED <<version, side, db, now, started, ticks, faults>>

Rob(t) ==
    \E a \in Users, b \in Users :
        IronStart(t, IF b = a
                     THEN Finish(Invoke("rob", a, b, 0), "SelfRob")
                     ELSE Call(Invoke("rob", a, b, 0), b, "rob_check"))

\* samples of random.randint(1, min(target_bal, 500))
Stolen(targetBal) == {1, Min(targetBal, RobCap)}

\* after `target_bal = await self._get_balance(target.id)`: the draw.
\* A caught robber's balance is read next, a lucky one starts the two
\* _add_balance calls.
RobCheck(t) ==
    /\ task[t].pc = "rob_check"
    /\ CanRun(t)
    /\ LET r == task[t] IN
         IF r.bal < RobMinTarget
         THEN Go(t, Finish(r, "TooBroke"))
         ELSE \E p \in Percents :
                IF p <= RobCaughtPercent
                THEN \E loss \in Penalties :
                       Go(t, Call([r EXCEPT !.won = FALSE, !.delta = loss],
                                   r.author, "rob_caught"))
                ELSE \E stolen \in Stolen(r.bal) :
                       Go(t, CallAdd([r EXCEPT !.won = TRUE,
                                                !.delta = stolen],
                                      r.target, 0 - stolen, "rob_credit"))
    /\ UNCHANGED <<version, side, db, disk, now, started, ticks, faults>>

\* self._add_balance(author, -min(loss, await self._get_balance(author)))
RobCaught(t) ==
    /\ task[t].pc = "rob_caught"
    /\ CanRun(t)
    /\ LET r == task[t] IN
         Go(t, CallAdd(r, r.author, 0 - Min(r.delta, r.bal), "return_ok"))
    /\ UNCHANGED <<version, side, db, disk, now, started, ticks, faults>>

\* await self._add_balance(ctx.author.id, stolen)
RobCredit(t) ==
    /\ task[t].pc = "rob_credit"
    /\ CanRun(t)
    /\ LET r == task[t] IN
         Go(t, CallAdd(r, r.author, r.delta, "return_ok"))
    /\ UNCHANGED <<version, side, db, disk, now, started, ticks, faults>>

\* the admin commands: the caller is an administrator, not an account
AGive(t) ==
    \E b \in Users, amount \in Amounts :
        LET r == Invoke("a_give", Admin, b, amount) IN
        IronStart(t, IF amount <= 0
                     THEN Finish(r, "InvalidAmount")
                     ELSE CallAdd(r, b, amount, "return_ok"))

ATake(t) ==
    \E b \in Users, amount \in Amounts :
        LET r == Invoke("a_take", Admin, b, amount) IN
        IronStart(t, IF amount <= 0
                     THEN Finish(r, "InvalidAmount")
                     ELSE CallAdd(r, b, 0 - amount, "return_ok"))


---------------------------------------------------------------------------
(* coal: the statements are synchronous sqlite3 calls, so a command keeps   *)
(* the event loop (running = t) from one `await ctx.send` to the next.      *)

\* the task record after a step, and whether the step ends in an await
Yield(t, r) == Set(t, r) /\ running' = 0

Keep(t, r) == Set(t, r) /\ running' = IF r.pc = "done" THEN 0 ELSE t

CoalStart(t, r) ==
    /\ version = "coal"
    /\ CanStart(t)
    /\ Canonical(r.author, r.target)
    /\ Keep(t, r)
    /\ started' = started + 1
    /\ UNCHANGED <<version, side, db, disk, now, ticks, faults>>

\* The prelude of balance, coinflip, roll and slots:
\*   SELECT balance ...; if not result: INSERT ...; commit; balance = 1000;
\*   await ctx.send(welcome)   else: balance = result[0]
CoalSelect(t) ==
    /\ task[t].pc = "c_select"
    /\ CanRun(t)
    /\ LET r == task[t] IN
         IF Present(db, r.author)
         THEN Keep(t, Return([r EXCEPT !.bal = db[r.author].balance], r.ret))
         ELSE Keep(t, [r EXCEPT !.pc = "c_insert"])
    /\ UNCHANGED <<version, side, db, disk, now, started, ticks, faults>>

CoalInsert(t) ==
    /\ task[t].pc = "c_insert"
    /\ CanRun(t)
    /\ db' = InsertRow(db, task[t].author)
    /\ Keep(t, [task[t] EXCEPT !.pc = "c_commit"])
    /\ UNCHANGED <<version, side, disk, now, started, ticks, faults>>

CoalCommit(t) ==
    /\ task[t].pc = "c_commit"
    /\ CanRun(t)
    /\ disk' = db
    /\ Yield(t, Return([task[t] EXCEPT !.bal = DefaultBalance], task[t].ret))
    /\ UNCHANGED <<version, side, db, now, started, ticks, faults>>

CoalBalance(t) ==
    \E b \in Users :
        CoalStart(t, [Invoke("balance", b, b, 0) EXCEPT
                         !.pc = "c_select", !.ret = "return_ok"])

\* "Remove bet amount first": UPDATE balance = balance - bet; commit
CoalDebit(t) ==
    /\ task[t].pc = "c_debit"
    /\ CanRun(t)
    /\ db' = UpdateBalance(db, task[t].author, 0 - task[t].amt)
    /\ Keep(t, [task[t] EXCEPT !.pc = "c_debit_commit"])
    /\ UNCHANGED <<version, side, disk, now, started, ticks, faults>>

CoalDebitCommit(t) ==
    /\ task[t].pc = "c_debit_commit"
    /\ CanRun(t)
    /\ disk' = db
    /\ Keep(t, [task[t] EXCEPT !.pc = "c_draw"])
    /\ UNCHANGED <<version, side, db, now, started, ticks, faults>>

\* "Add winnings if won": UPDATE balance = balance + credit; await ctx.send
CoalCredit(t) ==
    /\ task[t].pc = "c_credit"
    /\ CanRun(t)
    /\ db' = UpdateBalance(db, task[t].author, task[t].abAmt)
    /\ Yield(t, [task[t] EXCEPT !.pc = "c_final_commit"])
    /\ UNCHANGED <<version, side, disk, now, started, ticks, faults>>

\* the bot.db.commit() that ends coinflip, roll and slots
CoalFinalCommit(t) ==
    /\ task[t].pc = "c_final_commit"
    /\ CanRun(t)
    /\ disk' = db
    /\ Yield(t, Finish(task[t], "ok"))
    /\ UNCHANGED <<version, side, db, now, started, ticks, faults>>

\* the wager's outcome: a won wager runs a second UPDATE adding credit
Outcome(r, won, credit) ==
    [r EXCEPT !.won = won, !.abAmt = IF won THEN credit ELSE 0,
              !.delta = (IF won THEN credit ELSE 0) - r.amt,
              !.pc = IF won THEN "c_credit" ELSE "c_final_commit"]

CoalCoinflip(t) ==
    \E a \in Users, bet \in Bets :
        CoalStart(t, [Invoke("coinflip", a, a, bet) EXCEPT
                         !.pc = "c_select", !.ret = "ccf_check"])

CoalCoinflipCheck(t) ==
    /\ task[t].pc = "ccf_check"
    /\ CanRun(t)
    /\ LET r == task[t] IN
         IF Insufficient(r.bal, r.amt)
         THEN Keep(t, Finish(r, "InsufficientFunds"))
         ELSE Keep(t, [r EXCEPT !.pc = "c_debit"])
    /\ UNCHANGED <<version, side, db, disk, now, started, ticks, faults>>

\* a lost flip sends its message before the final commit
CoalCoinflipDraw(t) ==
    /\ task[t].pc = "c_draw"
    /\ task[t].cmd = "coinflip"
    /\ CanRun(t)
    /\ \E guess \in CoinSides, result \in CoinSides :
         LET r == Outcome(task[t], guess = result, task[t].amt * 2) IN
         IF r.pc = "c_credit" THEN Keep(t, r) ELSE Yield(t, r)
    /\ UNCHANGED <<version, side, db, disk, now, started, ticks, faults>>

CoalRoll(t) ==
    \E a \in Users, dice \in DiceCounts, bet \in Amounts :
        CoalStart(t, [Invoke("roll", a, a, bet) EXCEPT
                         !.dice = dice, !.pc = "c_select",
                         !.ret = "cro_check"])

CoalRollCheck(t) ==
    /\ task[t].pc = "cro_check"
    /\ CanRun(t)
    /\ LET r == task[t] IN
         IF Insufficient(r.bal, r.amt)
         THEN Keep(t, Finish(r, "InsufficientFunds"))
         ELSE IF r.dice > CoalRollMaxDice
         THEN Keep(t, Finish(r, "InvalidDice"))
         ELSE Keep(t, [r EXCEPT !.pc = "c_debit"])
    /\ UNCHANGED <<version, side, db, disk, now, started, ticks, faults>>

\* result = number_of_dice * random.randint(1, 4); sum(rolls) >= result
CoalRollWon(rolls, dice, factor) == SumRolls(rolls, dice) >= dice * factor

CoalRollOutcomes(dice) ==
    {<<SumRolls(rolls, dice), CoalRollWon(rolls, dice, factor)>> :
        rolls \in Rolls(dice), factor \in 1 .. 4}

CoalRollDraw(t) ==
    /\ task[t].pc = "c_draw"
    /\ task[t].cmd = "roll"
    /\ CanRun(t)
    /\ \E o \in CoalRollOutcomes(task[t].dice) :
         LET r == Outcome([task[t] EXCEPT !.total = o[1]], o[2],
                          task[t].amt * CoalRollCredit) IN
         IF r.pc = "c_credit" THEN Keep(t, r) ELSE Yield(t, r)
    /\ UNCHANGED <<version, side, db, disk, now, started, ticks, faults>>

\* the if/elif chain of coal's slots: the factor of `winnings = bet * ...`
CoalSlotsMultiplier(reels) ==
    IF Stars(reels) = 3 THEN 100
    ELSE IF Stars(reels) = 0 /\ reels[1] = reels[2] /\ reels[2] = reels[3]
    THEN 50
    ELSE IF Stars(reels) = 1 /\ AnyPair(reels) THEN 10
    ELSE IF Stars(reels) = 2 /\ Distinct(reels) = 2 THEN 5
    ELSE IF Stars(reels) = 1 /\ ~AnyPair(reels) THEN 3
    ELSE IF AnyPair(reels) THEN 2
    ELSE 0

CoalSlotsMultipliers == {CoalSlotsMultiplier(reels) : reels \in Reels}

\* a winning branch credits `winnings + bet`
CoalSlotsCredit(bet, multiplier) == bet * multiplier + bet

CoalSlots(t) ==
    \E a \in Users, bet \in SlotBets :
        CoalStart(t, [Invoke("slots", a, a, bet) EXCEPT
                         !.pc = "c_select", !.ret = "csl_check"])

CoalSlotsCheck(t) ==
    /\ task[t].pc = "csl_check"
    /\ CanRun(t)
    /\ LET r == task[t] IN
         IF Insufficient(r.bal, r.amt)
         THEN Keep(t, Finish(r, "InsufficientFunds"))
         ELSE IF r.amt <= 0
         THEN Keep(t, Finish(r, "InvalidStake"))
         ELSE IF r.amt > SlotsCap
         THEN Keep(t, Finish(r, "StakeTooLarge"))
         ELSE Keep(t, [r EXCEPT !.pc = "c_debit"])
    /\ UNCHANGED <<version, side, db, disk, now, started, ticks, faults>>

\* the reels are sent (await) before the chain runs
CoalSlotsDraw(t) ==
    /\ task[t].pc = "c_draw"
    /\ task[t].cmd = "slots"
    /\ CanRun(t)
    /\ \E m \in CoalSlotsMultipliers :
         Yield(t, Outcome([task[t] EXCEPT !.mult = m], m # 0,
                          CoalSlotsCredit(task[t].amt, m)))
    /\ UNCHANGED <<version, side, db, disk, now, started, ticks, faults>>


CoalDaily(t) ==
    \E a \in Users :
        CoalStart(t, [Invoke("daily", a, a, 0) EXCEPT !.pc = "cd_select"])

\* SELECT balance, last_daily; no record: "run -balance first"; the
\* cooldown check follows the SELECT without an await
CoalDailySelect(t) ==
    /\ task[t].pc = "cd_select"
    /\ CanRun(t)
    /\ LET r == task[t]
           today == DateOf(now) IN
         IF ~Present(db, r.author)
         THEN Keep(t, Finish(r, "NoAccount"))
         ELSE IF DailyOnCooldown(db[r.author].last_daily, today)
         THEN Keep(t, Finish(r, "CooldownActive"))
         ELSE Keep(t, [r EXCEPT !.pc = "cd_update", !.cap = today,
                                !.delta = DailyAmount])
    /\ UNCHANGED <<version, side, db, disk, now, started, ticks, faults>>

\* the UPDATE, then `await ctx.send(...)`, then the commit
CoalDailyUpdate(t) ==
    /\ task[t].pc = "cd_update"
    /\ CanRun(t)
    /\ db' = UpdateDaily(db, task[t].author, task[t].delta, task[t].cap)
    /\ Yield(t, [task[t] EXCEPT !.pc = "cd_commit"])
    /\ UNCHANGED <<version, side, disk, now, started, ticks, faults>>

CoalDailyCommit(t) ==
    /\ task[t].pc = "cd_commit"
    /\ CanRun(t)
    /\ disk' = db
    /\ Yield(t, Finish(task[t], "ok"))
    /\ UNCHANGED <<version, side, db, now, started, ticks, faults>>

CoalGive(t) ==
    \E a \in Users, b \in Users, amount \in Amounts :
        CoalStart(t, IF GiveInvalid(a, b, amount)
                     THEN Finish(Invoke("give", a, b, amount), "InvalidTransfer")
                     ELSE [Invoke("give", a, b, amount) EXCEPT
                              !.pc = "cg_select"])

\* `if not sender_balance or sender_balance[0] < amount`
CoalGiveSelect(t) ==
    /\ task[t].pc = "cg_select"
    /\ CanRun(t)
    /\ LET r == task[t] IN
         IF ~Present(db, r.author)
            \/ Insufficient(db[r.author].balance, r.amt)
         THEN Keep(t, Finish(r, "InsufficientFunds"))
         ELSE Keep(t, [r EXCEPT !.pc = "cg_select2",
                                !.bal = db[r.author].balance])
    /\ UNCHANGED <<version, side, db, disk, now, started, ticks, faults>>

\* "Check if recipient exists in database"
CoalGiveSelect2(t) ==
    /\ task[t].pc = "cg_select2"
    /\ CanRun(t)
    /\ Keep(t, [task[t] EXCEPT !.pc = IF Present(db, task[t].target)
                                      THEN "cg_debit" ELSE "cg_insert"])
    /\ UNCHANGED <<version, side, db, disk, now, started, ticks, faults>>

CoalGiveInsert(t) ==
    /\ task[t].pc = "cg_insert"
    /\ CanRun(t)
    /\ db' = InsertRow(db, task[t].target)
    /\ Keep(t, [task[t] EXCEPT !.pc = "cg_debit"])
    /\ UNCHANGED <<version, side, disk, now, started, ticks, faults>>

CoalGiveDebit(t) ==
    /\ task[t].pc = "cg_debit"
    /\ CanRun(t)
    /\ db' = UpdateBalance(db, task[t].author, 0 - task[t].amt)
    /\ Keep(t, [task[t] EXCEPT !.pc = "cg_credit"])
    /\ UNCHANGED <<version, side, disk, now, started, ticks, faults>>

CoalGiveCredit(t) ==
    /\ task[t].pc = "cg_credit"
    /\ CanRun(t)
    /\ db' = UpdateBalance(db, task[t].target, task[t].amt)
    /\ Keep(t, [task[t] EXCEPT !.pc = "cg_commit"])
    /\ UNCHANGED <<version, side, disk, now, started, ticks, faults>>

CoalGiveCommit(t) ==
    /\ task[t].pc = "cg_commit"
    /\ CanRun(t)
    /\ disk' = db
    /\ Yield(t, Finish(task[t], "ok"))
    /\ UNCHANGED <<version, side, db, now, started, ticks, faults>>

CoalWork(t) ==
    \E a \in Users :
        CoalStart(t, [Invoke("work", a, a, 0) EXCEPT !.pc = "cw_select"])

\* samples of random.randint(0, 500)
CoalWorkEarnings == {0, 500}

\* earnings and outcome are drawn and the phrase is sent (await) before the
\* UPDATE
CoalWorkDraw(t, r) ==
    \E earnings \in CoalWorkEarnings, p \in Percents :
        LET won == ~(p <= WorkFailPercent) IN
        Yield(t, [r EXCEPT !.pc = "cw_update", !.won = won,
                           !.delta = IF won THEN earnings ELSE 0 - earnings])

\* SELECT balance, last_work; current_time = now(); a missing record is
\* inserted, an existing one is checked for the cooldown
CoalWorkSelect(t) ==
    /\ task[t].pc = "cw_select"
    /\ CanRun(t)
    /\ LET r == [task[t] EXCEPT !.cap = now] IN
         IF ~Present(db, r.author)
         THEN Keep(t, [r EXCEPT !.pc = "cw_insert"])
         ELSE IF WorkOnCooldown(db[r.author].last_work, now)
         THEN Keep(t, Finish(r, "CooldownActive"))
         ELSE CoalWorkDraw(t, r)
    /\ UNCHANGED <<version, side, db, disk, now, started, ticks, faults>>

CoalWorkInsert(t) ==
    /\ task[t].pc = "cw_insert"
    /\ CanRun(t)
    /\ db' = InsertRowWork(db, task[t].author, task[t].cap)
    /\ Keep(t, [task[t] EXCEPT !.pc = "cw_insert_commit"])
    /\ UNCHANGED <<version, side, disk, now, started, ticks, faults>>

\* after the commit the new worker goes on to the draw
CoalWorkInsertCommit(t) ==
    /\ task[t].pc = "cw_insert_commit"
    /\ CanRun(t)
    /\ disk' = db
    /\ CoalWorkDraw(t, task[t])
    /\ UNCHANGED <<version, side, db, now, started, ticks, faults>>

CoalWorkUpdate(t) ==
    /\ task[t].pc = "cw_update"
    /\ CanRun(t)
    /\ db' = UpdateWork(db, task[t].author, task[t].delta, task[t].cap)
    /\ Keep(t, [task[t] EXCEPT !.pc = "cw_commit"])
    /\ UNCHANGED <<version, side, disk, now, started, ticks, faults>>

CoalWorkCommit(t) ==
    /\ task[t].pc = "cw_commit"
    /\ CanRun(t)
    /\ disk' = db
    /\ Yield(t, Finish(task[t], "ok"))
    /\ UNCHANGED <<version, side, db, now, started, ticks, faults>>

CoalAGive(t) ==
    \E b \in Users, amount \in Amounts :
        LET r == Invoke("a_give", Admin, b, amount) IN
        CoalStart(t, IF amount <= 0
                     THEN Finish(r, "InvalidAmount")
                     ELSE [r EXCEPT !.pc = "cag_select"])

CoalAGiveSelect(t) ==
    /\ task[t].pc = "cag_select"
    /\ CanRun(t)
    /\ Keep(t, [task[t] EXCEPT !.pc = IF Present(db, task[t].target)
                                      THEN "cag_update" ELSE "cag_insert"])
    /\ UNCHANGED <<version, side, db, disk, now, started, ticks, faults>>

CoalAGiveInsert(t) ==
    /\ task[t].pc = "cag_insert"
    /\ CanRun(t)
    /\ db' = InsertRow(db, task[t].target)
    /\ Keep(t, [task[t] EXCEPT !.pc = "cag_update"])
    /\ UNCHANGED <<version, side, disk, now, started, ticks, faults>>

CoalAGiveUpdate(t) ==
    /\ task[t].pc = "cag_update"
    /\ CanRun(t)
    /\ db' = UpdateBalance(db, task[t].target, task[t].amt)
    /\ Keep(t, [task[t] EXCEPT !.pc = "cag_commit"])
    /\ UNCHANGED <<version, side, disk, now, started, ticks, faults>>

CoalAGiveCommit(t) ==
    /\ task[t].pc = "cag_commit"
    /\ CanRun(t)
    /\ disk' = db
    /\ Yield(t, Finish(task[t], "ok"))
    /\ UNCHANGED <<version, side, db, now, started, ticks, faults>>

CoalATake(t) ==
    \E b \in Users, amount \in Amounts :
        LET r == Invoke("a_take", Admin, b, amount) IN
        CoalStart(t, IF amount <= 0
                     THEN Finish(r, "InvalidAmount")
                     ELSE [r EXCEPT !.pc = "cat_select"])

\* `if not recipient_balance or recipient_balance[0] < amount`
CoalATakeSelect(t) ==
    /\ task[t].pc = "cat_select"
    /\ CanRun(t)
    /\ LET r == task[t] IN
         IF ~Present(db, r.target)
            \/ Insufficient(db[r.target].balance, r.amt)
         THEN Keep(t, Finish(r, "InsufficientFunds"))
         ELSE Keep(t, [r EXCEPT !.pc = "cat_update"])
    /\ UNCHANGED <<version, side, db, disk, now, started, ticks, faults>>

CoalATakeUpdate(t) ==
    /\ task[t].pc = "cat_update"
    /\ CanRun(t)
    /\ db' = UpdateBalance(db, task[t].target, 0 - task[t].amt)
    /\ Keep(t, [task[t] EXCEPT !.pc = "cat_commit"])
    /\ UNCHANGED <<version, side, disk, now, started, ticks, faults>>

CoalATakeCommit(t) ==
    /\ task[t].pc = "cat_commit"
    /\ CanRun(t)
    /\ disk' = db
    /\ Yield(t, Finish(task[t], "ok"))
    /\ UNCHANGED <<version, side, db, now, started, ticks, faults>>

\* rob takes a user id; nothing keeps it from being the caller's own
CoalRob(t) ==
    \E a \in Users, b \in Users :
        CoalStart(t, [Invoke("rob", a, b, 0) EXCEPT !.pc = "cr_select"])

\* samples of random.randint(1, user_balance)
CoalStolen(targetBal) == {1, targetBal}

\* SELECT the target; outcome and loss are drawn; a caught robber is told
\* so (await) before the UPDATE; random.randint(1, user_balance) raises
\* ValueError for user_balance < 1
CoalRobSelect(t) ==
    /\ task[t].pc = "cr_select"
    /\ CanRun(t)
    /\ LET r == task[t] IN
         IF ~Present(db, r.target)
         THEN Keep(t, Finish(r, "NoAccount"))
         ELSE \E p \in Percents, loss \in Penalties :
                IF p <= RobCaughtPercent
                THEN Yield(t, [r EXCEPT !.pc = "cr_penalty", !.won = FALSE,
                                        !.delta = loss])
                ELSE IF db[r.target].balance < 1
                THEN Keep(t, Finish(r, "ValueError"))
                ELSE \E stolen \in CoalStolen(db[r.target].balance) :
                       Keep(t, [r EXCEPT !.pc = "cr_debit", !.won = TRUE,
                                         !.delta = stolen])
    /\ UNCHANGED <<version, side, db, disk, now, started, ticks, faults>>

\* UPDATE balance = balance - loss for the caller; the command ends here,
\* without a commit
CoalRobPenalty(t) ==
    /\ task[t].pc = "cr_penalty"
    /\ CanRun(t)
    /\ db' = UpdateBalance(db, task[t].author, 0 - task[t].delta)
    /\ Yield(t, Finish(task[t], "ok"))
    /\ UNCHANGED <<version, side, disk, now, started, ticks, faults>>

CoalRobDebit(t) ==
    /\ task[t].pc = "cr_debit"
    /\ CanRun(t)
    /\ db' = UpdateBalance(db, task[t].target, 0 - task[t].delta)
    /\ Keep(t, [task[t] EXCEPT !.pc = "cr_credit"])
    /\ UNCHANGED <<version, side, disk, now, started, ticks, faults>>

CoalRobCredit(t) ==
    /\ task[t].pc = "cr_credit"
    /\ CanRun(t)
    /\ db' = UpdateBalance(db, task[t].author, task[t].delta)
    /\ Keep(t, [task[t] EXCEPT !.pc = "cr_commit"])
    /\ UNCHANGED <<version, side, disk, now, started, ticks, faults>>

CoalRobCommit(t) ==
    /\ task[t].pc = "cr_commit"
    /\ CanRun(t)
    /\ disk' = db
    /\ Yield(t, Finish(task[t], "ok"))
    /\ UNCHANGED <<version, side, db, now, started, ticks, faults>>

---------------------------------------------------------------------------
(* Environment *)

\* the labels at which the next thing the command does is a database
\* statement (execute or commit)
StatementPcs ==
    {"gb_select", "gb_insert", "gb_commit", "ab_update", "ab_commit",
     "d_select1", "d_select2", "d_update", "d_commit",
     "g_debit", "g_credit", "g_commit", "wager_update", "wager_commit",
     "w_select1", "w_select2", "w_update", "w_commit",
     "c_select", "c_insert", "c_commit", "c_debit", "c_debit_commit",
     "c_credit", "c_final_commit", "cd_select", "cd_update", "cd_commit",
     "cg_select", "cg_select2", "cg_insert", "cg_debit", "cg_credit",
     "cg_commit", "cw_select", "cw_insert", "cw_insert_commit", "cw_update",
     "cw_commit", "cag_select", "cag_insert", "cag_update", "cag_commit",
     "cat_select", "cat_update", "cat_commit",
     "cr_select", "cr_penalty", "cr_debit", "cr_credit", "cr_commit"}

\* A statement raises (sqlite3.Error: I/O error, database locked).  No
\* handler rolls back: iron lets the exception reach on_command_error, which
\* logs it; coal's give, a_give, a_take and balance catch sql.Error and send
\* a message, the other commands let it propagate.  The statement itself
\* changes nothing.
StorageError(t) ==
    /\ task[t].pc \in StatementPcs
    /\ CanRun(t)
    /\ faults < MaxFaults
    /\ faults' = faults + 1
    /\ Yield(t, Finish(task[t], "StorageError"))
    /\ UNCHANGED <<version, side, db, disk, now, started, ticks>>

\* Time passes (between the steps of the event loop).
Tick ==
    /\ running = 0
    /\ ticks < MaxTicks
    /\ \E d \in TickSteps : now' = now + d
    /\ ticks' = ticks + 1
    /\ UNCHANGED <<version, side, db, disk, task, running, started, faults>>

---------------------------------------------------------------------------
(* Specifications *)

\* a command is dispatched
Begin(t) ==
    \/ Balance(t) \/ Daily(t) \/ Give(t) \/ Coinflip(t) \/ Roll(t)
    \/ Slots(t) \/ Work(t) \/ Rob(t) \/ AGive(t) \/ ATake(t)
    \/ CoalBalance(t) \/ CoalDaily(t) \/ CoalGive(t) \/ CoalCoinflip(t)
    \/ CoalRoll(t) \/ CoalSlots(t) \/ CoalWork(t) \/ CoalRob(t)
    \/ CoalAGive(t) \/ CoalATake(t)

\* a command in flight goes on to its next await
Step(t) ==
    \/ GetBalanceSelect(t) \/ GetBalanceInsert(t) \/ GetBalanceCommit(t)
    \/ AddBalanceUpdate(t) \/ AddBalanceCommit(t)
    \/ DailySelect1(t) \/ DailySelect2(t) \/ DailyCheck(t)
    \/ DailyUpdate(t) \/ DailyCommit(t)
    \/ GiveCheck(t) \/ GiveDebit(t) \/ GiveCredit(t) \/ GiveCommit(t)
    \/ CoinflipCheck(t) \/ RollCheck(t) \/ SlotsCheck(t)
    \/ WagerUpdate(t) \/ WagerCommit(t)
    \/ WorkSelect1(t) \/ WorkSelect2(t) \/ WorkCheck(t)
    \/ WorkUpdate(t) \/ WorkCommit(t)
    \/ RobCheck(t) \/ RobCaught(t) \/ RobCredit(t)
    \/ CoalSelect(t) \/ CoalInsert(t) \/ CoalCommit(t)
    \/ CoalDebit(t) \/ CoalDebitCommit(t) \/ CoalCredit(t)
    \/ CoalFinalCommit(t)
    \/ CoalCoinflipCheck(t) \/ CoalCoinflipDraw(t)
    \/ CoalRollCheck(t) \/ CoalRollDraw(t)
    \/ CoalSlotsCheck(t) \/ CoalSlotsDraw(t)
    \/ CoalDailySelect(t) \/ CoalDailyUpdate(t) \/ CoalDailyCommit(t)
    \/ CoalGiveSelect(t) \/ CoalGiveSelect2(t) \/ CoalGiveInsert(t)
    \/ CoalGiveDebit(t) \/ CoalGiveCredit(t) \/ CoalGiveCommit(t)
    \/ CoalWorkSelect(t) \/ CoalWorkInsert(t) \/ CoalWorkInsertCommit(t)
    \/ CoalWorkUpdate(t) \/ CoalWorkCommit(t)
    \/ CoalAGiveSelect(t) \/ CoalAGiveInsert(t) \/ CoalAGiveUpdate(t)
    \/ CoalAGiveCommit(t)
    \/ CoalATakeSelect(t) \/ CoalATakeUpdate(t) \/ CoalATakeCommit(t)
    \/ CoalRobSelect(t) \/ CoalRobPenalty(t) \/ CoalRobDebit(t)
    \/ CoalRobCredit(t) \/ CoalRobCommit(t)

\* Commands are dispatched as independent tasks of one event loop and
\* interleave at their awaits.
Dispatch(t) == started < MaxCmds /\ Begin(t)

Next == \E t \in Tasks : Dispatch(t) \/ Step(t)

Spec == Init /\ [][Next]_vars

Quiet == \A t \in Tasks : ~InFlight(t)

\* One command at a time: each command runs to its end before the next is
\* dispatched.
NextSeq ==
    \/ Dispatch(1)
    \/ Step(1)

SpecSeq == Init /\ [][NextSeq]_vars

\* One command at a time, on a storage that can fail.
NextFault ==
    \E t \in Tasks :
        \/ Quiet /\ Dispatch(t)
        \/ Step(t)
        \/ StorageError(t)

SpecFault == Init /\ [][NextFault]_vars

\* The commands that read the clock, and balance, which opens an account.
BeginClock(t) ==
    \/ Balance(t) \/ Daily(t) \/ Work(t)
    \/ CoalBalance(t) \/ CoalDaily(t) \/ CoalWork(t)

StepClock(t) ==
    \/ GetBalanceSelect(t) \/ GetBalanceInsert(t) \/ GetBalanceCommit(t)
    \/ DailySelect1(t) \/ DailySelect2(t) \/ DailyCheck(t)
    \/ DailyUpdate(t) \/ DailyCommit(t)
    \/ WorkSelect1(t) \/ WorkSelect2(t) \/ WorkCheck(t)
    \/ WorkUpdate(t) \/ WorkCommit(t)
    \/ CoalSelect(t) \/ CoalInsert(t) \/ CoalCommit(t)
    \/ CoalDailySelect(t) \/ CoalDailyUpdate(t) \/ CoalDailyCommit(t)
    \/ CoalWorkSelect(t) \/ CoalWorkInsert(t) \/ CoalWorkInsertCommit(t)
    \/ CoalWorkUpdate(t) \/ CoalWorkCommit(t)

\* One command at a time, while time passes.
NextClock ==
    \/ Tick
    \/ started < MaxClockCmds /\ BeginClock(1)
    \/ StepClock(1)

SpecClock == Init /\ [][NextClock]_vars

\* The slot machine on its own: three reels are drawn and the if/elif chain
\* of the bot's slots command picks the multiplier.
Spin ==
    /\ \E reels \in Reels :
         task' = [task EXCEPT ![1] =
                    [Idle EXCEPT !.cmd = "spin", !.pc = "done",
                                 !.reels = reels,
                                 !.mult = IF version = "iron"
                                          THEN SlotsMultiplier(reels)
                                          ELSE CoalSlotsMultiplier(reels)]]
    /\ UNCHANGED <<version, side, db, disk, running, now, started, ticks, faults>>

SpecReels == Init /\ [][Spin]_vars

-----------------------------------------------------------------------------
\* Properties of the ledger.

\* scratch shows each symbol as a spoiler, result.append(f"||{sym}||"), and
\* its chain then tests the wrapped strings: a wrapped symbol equals no
\* plain symbol, and two wrapped symbols are equal when the symbols are.
Spoiler(sym) == sym + 9

\* the if/elif chain of coal's scratch: the chain of slots, word for word,
\* on the wrapped symbols
ScratchMultiplier(reels) ==
    CoalSlotsMultiplier([i \in 1 .. 3 |-> Spoiler(reels[i])])

\* Stakes that slots and scratch accept from a player who can cover them.
AcceptedBets == {1, 600, SlotsCap}

\* What a command does to the player's balance for the drawn reels, from
\* the debit of the bet to the last credit.
Settled(cmd, bet, reels, multiplier, delta) ==
    [Idle EXCEPT !.cmd = cmd, !.pc = "done", !.res = "ok", !.amt = bet,
                 !.reels = reels, !.mult = multiplier, !.delta = delta,
                 !.won = multiplier # 0]

CoalSettled(cmd, bet, reels, m) ==
    Settled(cmd, bet, reels, m,
            Outcome([Idle EXCEPT !.amt = bet], m # 0,
                    CoalSlotsCredit(bet, m)).delta)

\* The same bet and the same reels in iron's slots (slot 1) and coal's
\* slots (slot 2); one draw per behaviour.
SlotsBoth ==
    /\ \A t \in Tasks : task[t].pc = "idle"
    /\ \E bet \in AcceptedBets, reels \in Reels :
         task' = [task EXCEPT
                    ![1] = Settled("slots", bet, reels, SlotsMultiplier(reels),
                                   SlotsDelta(bet, SlotsMultiplier(reels))),
                    ![2] = CoalSettled("slots", bet, reels,
                                       CoalSlotsMultiplier(reels))]
    /\ UNCHANGED <<version, side, db, disk, running, now, started, ticks,
                   faults>>

\* The same bet and the same reels in coal's slots (slot 1) and coal's
\* scratch (slot 2).
SlotsScratch ==
    /\ \A t \in Tasks : task[t].pc = "idle"
    /\ \E bet \in AcceptedBets, reels \in Reels :
         task' = [task EXCEPT
                    ![1] = CoalSettled("slots", bet, reels,
                                       CoalSlotsMultiplier(reels)),
                    ![2] = CoalSettled("scratch", bet, reels,
                                       ScratchMultiplier(reels))]
    /\ UNCHANGED <<version, side, db, disk, running, now, started, ticks,
                   faults>>

SpecPayout == Init /\ [][SlotsBoth \/ SlotsScratch]_vars

---------------------------------------------------------------------------
(* The leaderboard command on its own.  `balances` is the table in the     *)
(* order its rows were inserted; `board` is the reply.                     *)

LeaderboardLimit == 10

\* Sampled balances: the first three rows take any of three balances, the
\* later rows one of two, which leaves ties and keeps the tables few.
BoardBalances(i) == IF i <= 3 THEN {10, 50, 500} ELSE {50, 500}

\* The user id of the i-th inserted row: ids are Discord snowflakes, so the
\* order of insertion is not the order of the ids (2, 1, 4, 3, ...).
IdOf(i) == IF i % 2 = 1 THEN i + 1 ELSE i - 1

\* A row of the table as earlier commands left it: INSERT INTO balances
\* (user_id, balance), then the balance updates.
AccountRecorded ==
    /\ ~board.sent
    /\ Len(balances) < MaxAccounts
    /\ \E b \in BoardBalances(Len(balances) + 1) :
         balances' = Append(balances,
                            [user_id |-> IdOf(Len(balances) + 1), balance |-> b])
    /\ UNCHANGED <<economy, board, xpVars, remVars>>

\* How rows of equal balance come out of ORDER BY balance DESC.  SQL leaves
\* it open; SQLite returns them in the order of the table scan, which for
\* iron's `user_id INTEGER PRIMARY KEY` is ascending user_id.  coal's CREATE
\* TABLE is not in the repository: its scan is by user_id or by rowid, which
\* is the insertion order.
TieOrders == IF version = "iron" THEN {"user_id"} ELSE {"user_id", "rowid"}

\* variant: ORDER BY balance ASC
Precedes_Ascending(tab, scan, i, j) ==
    \/ tab[i].balance < tab[j].balance
    \/ /\ tab[i].balance = tab[j].balance
       /\ IF scan = "user_id" THEN tab[i].user_id < tab[j].user_id ELSE i < j

\* Row i comes before row j in ORDER BY balance DESC with the given scan.
Precedes(tab, scan, i, j) ==
    \/ tab[i].balance > tab[j].balance
    \/ /\ tab[i].balance = tab[j].balance
       /\ IF scan = "user_id" THEN tab[i].user_id < tab[j].user_id ELSE i < j

\* SELECT user_id, balance FROM balances ORDER BY balance DESC
OrderByBalanceDesc(tab, scan) ==
    [k \in 1 .. Len(tab) |->
        tab[CHOOSE i \in 1 .. Len(tab) :
                Cardinality({j \in 1 .. Len(tab) : Precedes(tab, scan, j, i)})
                    = k - 1]]

\* LIMIT 10 (iron) / results[:10] (coal)
Limit(rows, n) == SubSeq(rows, 1, Min(n, Len(rows)))

\* The leaderboard command: the reply lists the first ten rows of the
\* ordered table ("No balances ..." for an empty table).
Leaderboard ==
    /\ ~board.sent
    /\ \E scan \in TieOrders :
         board' = [sent |-> TRUE,
                   rows |-> Limit(OrderByBalanceDesc(balances, scan),
                                  LeaderboardLimit)]
    /\ UNCHANGED <<economy, balances, xpVars, remVars>>

NextBoard == AccountRecorded \/ Leaderboard

SpecBoard == Init /\ [][NextBoard]_vars

---------------------------------------------------------------------------
(* iron's XP engine on its own.  `levels` is the levels table, `xpTask`    *)
(* the position of each on_message task in _add_xp, `added` the sum of the *)
(* amounts passed to _add_xp.                                              *)

XpUsers == {1}

\* random.randint(1, 3)
XpAmounts == 1 .. 3

\* int(10 * (1.5 ** (level - 1)))
XpNeeded(level) == (10 * 3 ^ (level - 1)) \div 2 ^ (level - 1)

\* while xp >= _xp_needed(level): xp -= _xp_needed(level); level += 1
RECURSIVE LevelUp(_, _)
LevelUp(level, xp) ==
    IF xp >= XpNeeded(level)
    THEN LevelUp(level + 1, xp - XpNeeded(level))
    ELSE [level |-> level, xp |-> xp]

\* on_message: a message that is not a command earns its author XP
OnMessage(t) ==
    /\ xpTask[t].pc = "idle"
    /\ added < MaxXp
    /\ \E u \in XpUsers, amount \in XpAmounts :
         /\ xpTask' = [xpTask EXCEPT ![t] =
                         [XpIdle EXCEPT !.pc = "insert", !.user = u,
                                        !.amount = amount]]
         /\ added' = added + amount
    /\ UNCHANGED <<economy, boardVars, levels, remVars>>

\* _add_xp, one awaited statement at a time
AddXp(t) ==
    LET r == xpTask[t]
        u == r.user IN
    /\ \/ \* INSERT OR IGNORE INTO levels (id, level, xp) VALUES (?, 1, 0)
          /\ r.pc = "insert"
          /\ levels' = IF Present(levels, u) THEN levels
                       ELSE [x \in DOMAIN levels \cup {u} |->
                               IF x = u THEN [level |-> 1, xp |-> 0]
                               ELSE levels[x]]
          /\ xpTask' = [xpTask EXCEPT ![t].pc = "update"]
       \/ \* UPDATE levels SET xp = xp + ? WHERE id = ?
          /\ r.pc = "update"
          /\ levels' = [levels EXCEPT ![u].xp = @ + r.amount]
          /\ xpTask' = [xpTask EXCEPT ![t].pc = "select"]
       \/ \* SELECT level, xp ...; the while loop runs on the fetched row
          /\ r.pc = "select"
          /\ LET new == LevelUp(levels[u].level, levels[u].xp) IN
               xpTask' = [xpTask EXCEPT ![t] =
                            [r EXCEPT !.level = new.level, !.xp = new.xp,
                                      !.levelled_up =
                                          new.level # levels[u].level,
                                      !.pc = IF new.level # levels[u].level
                                             THEN "write" ELSE "commit"]]
          /\ UNCHANGED levels
       \/ \* if levelled_up: UPDATE levels SET level = ?, xp = ? WHERE id = ?
          /\ r.pc = "write"
          /\ levels' = [levels EXCEPT ![u] = [level |-> r.level, xp |-> r.xp]]
          /\ xpTask' = [xpTask EXCEPT ![t].pc = "commit"]
       \/ \* await self.bot.db.commit(), then the level-up message
          /\ r.pc = "commit"
          /\ xpTask' = [xpTask EXCEPT ![t] = XpIdle]
          /\ UNCHANGED levels
    /\ UNCHANGED <<economy, boardVars, added, remVars>>

NextXp == \E t \in Tasks : OnMessage(t) \/ AddXp(t)

SpecXp == Init /\ [][NextXp]_vars

---------------------------------------------------------------------------
(* iron's reminders on their own: the remind command, the polling loop     *)
(* check_reminders and `reminders delete`.  `outbox` is the sequence of    *)
(* reminder deliveries and cancellation confirmations sent so far.         *)

\* "in 30 minutes", "in an hour": the reminder is due some time after now
RemindDelays == {1800, 3600}

\* remind: INSERT INTO reminders (..., remind_at); the id is AUTOINCREMENT
Remind ==
    /\ lastrowid < MaxReminders
    /\ \E d \in RemindDelays :
         reminders' = [x \in DOMAIN reminders \cup {lastrowid + 1} |->
                         IF x = lastrowid + 1
                         THEN [remind_at |-> now + d, sent |-> FALSE]
                         ELSE reminders[x]]
    /\ lastrowid' = lastrowid + 1
    /\ UNCHANGED <<economy, boardVars, xpVars, poll, deleting, outbox>>

\* SELECT * FROM reminders WHERE sent = 0 AND remind_at <= now, as the list
\* of ids in table order
RECURSIVE DueFrom(_)
DueFrom(id) ==
    IF id > lastrowid THEN <<>>
    ELSE IF /\ Present(reminders, id)
            /\ ~reminders[id].sent
            /\ reminders[id].remind_at <= now
    THEN <<id>> \o DueFrom(id + 1)
    ELSE DueFrom(id + 1)

\* check_reminders, one await at a time: the SELECT, then for each fetched
\* row `await channel.send(...)` and, in the finally, UPDATE ... SET sent = 1
\* and the commit
CheckReminders ==
    /\ \/ /\ poll.pc = "idle"
          /\ DueFrom(1) # <<>>
          /\ poll' = [pc |-> "send", due |-> DueFrom(1)]
          /\ UNCHANGED <<reminders, outbox>>
       \/ /\ poll.pc = "send"
          /\ outbox' = Append(outbox, [kind |-> "reminder", id |-> Head(poll.due)])
          /\ poll' = [poll EXCEPT !.pc = "mark"]
          /\ UNCHANGED reminders
       \/ /\ poll.pc = "mark"
          /\ reminders' = IF Present(reminders, Head(poll.due))
                          THEN [reminders EXCEPT ![Head(poll.due)].sent = TRUE]
                          ELSE reminders
          /\ poll' = IF Tail(poll.due) = <<>> THEN PollIdle
                     ELSE [pc |-> "send", due |-> Tail(poll.due)]
          /\ UNCHANGED outbox
    /\ UNCHANGED <<economy, boardVars, xpVars, lastrowid, deleting>>

\* reminders delete, one await at a time: the SELECT and its two refusals,
\* the DELETE, the commit, and the confirmation
RemindersDelete ==
    /\ \/ /\ deleting.pc = "idle"
          /\ \E id \in 1 .. lastrowid :
               deleting' = [pc |-> "select", reminder_id |-> id]
          /\ UNCHANGED <<reminders, outbox>>
       \/ /\ deleting.pc = "select"
          /\ deleting' =
               IF ~Present(reminders, deleting.reminder_id)
                  \/ reminders[deleting.reminder_id].sent
               THEN DeleteIdle
               ELSE [deleting EXCEPT !.pc = "delete"]
          /\ UNCHANGED <<reminders, outbox>>
       \/ /\ deleting.pc = "delete"
          /\ reminders' = [x \in DOMAIN reminders \ {deleting.reminder_id} |->
                             reminders[x]]
          /\ deleting' = [deleting EXCEPT !.pc = "commit"]
          /\ UNCHANGED outbox
       \/ /\ deleting.pc = "commit"
          /\ deleting' = [deleting EXCEPT !.pc = "confirm"]
          /\ UNCHANGED <<reminders, outbox>>
       \/ /\ deleting.pc = "confirm"
          /\ outbox' = Append(outbox, [kind |-> "cancelled",
                                       id |-> deleting.reminder_id])
          /\ deleting' = DeleteIdle
          /\ UNCHANGED reminders
    /\ UNCHANGED <<economy, boardVars, xpVars, lastrowid, poll>>

NextRem == Tick \/ Remind \/ CheckReminders \/ RemindersDelete

SpecRem == Init /\ [][NextRem]_vars

Done(t) == task[t].pc = "done"

Wagers == {"coinflip", "roll", "slots"}

\* C1: a successful give conserves the total: the sum of the sender's and
\* the recipient's balances is the same before and after, and the record of
\* every other account is left as it was.
Thm_C1_GiveConserves ==
    \A t \in Tasks :
        LET r == task[t] IN
        (Done(t) /\ r.cmd = "give" /\ r.res = "ok") =>
            /\ BalanceOf(db, r.author) + BalanceOf(db, r.target)
                 = BalanceOf(r.pre, r.author) + BalanceOf(r.pre, r.target)
            /\ \A c \in Users \ {r.author, r.target} :
                 /\ Present(db, c) <=> Present(r.pre, c)
                 /\ Present(db, c) => db[c] = r.pre[c]

\* A give has moved a positive amount to a recipient that had no record,
\* while a third account exists.
Wit_C1_GiveDone ==
    \E t \in Tasks :
        LET r == task[t] IN
        /\ Done(t) /\ r.cmd = "give" /\ r.res = "ok"
        /\ r.amt > 0
        /\ ~Present(r.pre, r.target)
        /\ BalanceOf(db, r.author) = BalanceOf(r.pre, r.author) - r.amt
        /\ BalanceOf(db, r.target) = DefaultBalance + r.amt
        /\ \E c \in Users \ {r.author, r.target} : Present(db, c)

\* C2: no committed balance is negative.
CE_C2_CommittedNonNegative ==
    \A u \in DOMAIN disk : disk[u].balance >= 0
\* C3: two concurrent add_balance calls on one account both take effect,
\* whether or not the account's record existed: neither fails and the
\* account ends with both increments.
CE_C3_NoLostUpdate ==
    (/\ started = 2
     /\ \A t \in Tasks : Done(t) /\ task[t].cmd = "a_give" /\ task[t].amt > 0
     /\ task[1].target = task[2].target)
    => /\ \A t \in Tasks : task[t].res = "ok"
       /\ BalanceOf(db, task[1].target)
            = BalanceOf(task[1].pre, task[1].target)
                + task[1].amt + task[2].amt

\* The statements that read a balance, and the account each reads.
SelectPcs ==
    {"gb_select", "d_select1", "d_select2", "w_select1", "w_select2",
     "c_select", "cd_select", "cg_select", "cg_select2", "cw_select",
     "cag_select", "cat_select", "cr_select"}

SelectedAccount(r) ==
    IF r.pc = "gb_select" THEN r.gbUser
    ELSE IF r.pc \in {"cg_select2", "cag_select", "cat_select", "cr_select"}
    THEN r.target
    ELSE r.author

\* Task t is between the debit and the credit of a give.
GivePartial(t) ==
    /\ task[t].cmd = "give"
    /\ task[t].pc \in {"g_credit", "cg_credit"}

\* C4: a transfer is atomic: while a give has debited the sender and not
\* yet credited the recipient, nothing is committed and no other command
\* reads the balance of the sender or of the recipient.
CE_C4_TransferAtomic ==
    [][\A t \in Tasks :
         (GivePartial(t) /\ task'[t] = task[t]) =>
            /\ disk' = disk
            /\ \A u \in Tasks \ {t} :
                 ~ /\ task'[u] # task[u]
                   /\ task[u].pc \in SelectPcs
                   /\ SelectedAccount(task[u])
                        \in {task[t].author, task[t].target}]_vars

\* C5: wagers and gives of one user that run concurrently never debit more
\* than the balance holds: starting from an empty ledger (every account at
\* the default balance) and running only wagers and gives, no balance
\* becomes negative.
CE_C5_NoOverCommit ==
    (/\ task[1].pre = EmptyLedger
     /\ \A t \in Tasks : task[t].cmd \in Wagers \cup {"give", "none"})
    => \A u \in DOMAIN db : db[u].balance >= 0

\* C6: of two concurrent claims of the same cooldown-gated reward by one
\* user in one window, at most one succeeds.
CE_C6_OneClaimPerWindow ==
    ~ \E t1, t2 \in Tasks :
        /\ t1 # t2
        /\ Done(t1) /\ Done(t2)
        /\ task[t1].cmd \in {"daily", "work"}
        /\ task[t1].cmd = task[t2].cmd
        /\ task[t1].author = task[t2].author
        /\ task[t1].res = "ok" /\ task[t2].res = "ok"
        /\ ticks = 0
\* A finished wager whose stake exceeded the player's balance.
StakeOverBalance(r) ==
    /\ r.pc = "done"
    /\ r.cmd \in Wagers
    /\ r.amt > BalanceOf(r.pre, r.author)

IronArgsInvalid(r) ==
    /\ version = "iron"
    /\ \/ r.amt <= 0
       \/ r.cmd = "slots" /\ r.amt > SlotsCap
       \/ r.cmd = "roll" /\ (r.dice < 1 \/ r.dice > RollMaxDice)

CE_C8_GiveOutcome ==
    \A t \in Tasks :
        LET r == task[t] IN
        (Done(t) /\ r.cmd = "give") =>
            IF GiveInvalid(r.author, r.target, r.amt)
            THEN r.res = "InvalidTransfer"
            ELSE IF BalanceOf(r.pre, r.author) < r.amt
            THEN r.res = "InsufficientFunds"
            ELSE r.res = "ok"

ClaimedRejections ==
    {"InvalidStake", "StakeTooLarge", "InsufficientFunds", "CooldownActive",
     "InvalidTransfer"}

Rejections ==
    ClaimedRejections
        \cup {"InvalidDice", "InvalidAmount", "NoAccount", "TooBroke",
              "SelfRob"}

\* C9 as stated: a command that ends in a validation rejection leaves the
\* whole ledger unchanged: no balance or timestamp is modified and no record
\* is created.
CE_C9_RejectionNoChange ==
    \A t \in Tasks :
        (Done(t) /\ task[t].res \in ClaimedRejections) => db = task[t].pre

\* C9: a command that ends in a validation rejection modifies no existing
\* record; the only change it can make is to create, with the default
\* balance and no timestamps, the missing record of an account it reads.
Thm_C9_RejectionKeepsRecords ==
    \A t \in Tasks :
        LET r == task[t] IN
        (Done(t) /\ r.res \in Rejections) =>
            /\ \A u \in DOMAIN r.pre : Present(db, u) /\ db[u] = r.pre[u]
            /\ \A u \in DOMAIN db \ DOMAIN r.pre :
                 /\ db[u] = NewRow
                 /\ u \in {r.author, r.target}

\* A command was rejected after it created the record of its caller, while
\* another record existed.
Wit_C9_RejectedAfterCreate ==
    \E t \in Tasks :
        LET r == task[t] IN
        /\ Done(t) /\ r.res \in ClaimedRejections
        /\ ~Present(r.pre, r.author) /\ Present(db, r.author)
        /\ DOMAIN r.pre # {}

MultiStatement == {"give", "coinflip", "roll", "slots", "rob"}

\* C10: a storage error at any statement of a multi-statement operation
\* aborts the whole operation: none of its mutations is committed, at once
\* or by the commit of a later command.  For each account of the failed
\* operation that no later command involves, the committed balance is the
\* one committed at dispatch, or the one pending at dispatch.
CE_C10_FailedOperationNeverCommitted ==
    \A t \in Tasks :
        LET r == task[t] IN
        (Done(t) /\ r.res = "StorageError" /\ r.cmd \in MultiStatement) =>
            \A a \in {r.author, r.target} :
                (\A u \in Tasks \ {t} :
                    a \notin {task[u].author, task[u].target, task[u].gbUser,
                              task[u].abUser})
                => BalanceOf(disk, a)
                     \in {BalanceOf(r.preDisk, a), BalanceOf(r.pre, a)}

\* C11: account creation is idempotent: get_balance on an account without a
\* record returns 1000 and creates exactly one record, with balance 1000; a
\* second get_balance in a row returns 1000 again and leaves that one
\* record as it is.  (The ledger holds one record per user id.)
Thm_C11_IdempotentCreation ==
    \A t \in Tasks :
        LET r == task[t]
            u == r.target IN
        (Done(t) /\ r.cmd = "balance") =>
            /\ r.res = "ok"
            /\ DOMAIN db = DOMAIN r.pre \cup {u}
            /\ \A x \in DOMAIN r.pre : db[x] = r.pre[x]
            /\ ~Present(r.pre, u) =>
                 /\ r.bal = 1000
                 /\ db[u] = [balance |-> 1000, last_daily |-> NULL,
                             last_work |-> NULL]
            /\ Present(r.pre, u) => r.bal = r.pre[u].balance

\* The second of two get_balance calls in a row on a fresh account: the
\* first left the single record at 1000, the second returned 1000.
Wit_C11_SecondCall ==
    \E t \in Tasks :
        LET r == task[t] IN
        /\ Done(t) /\ r.cmd = "balance" /\ started = 2
        /\ DOMAIN r.pre = {r.target}
        /\ r.pre[r.target].balance = 1000
        /\ r.bal = 1000
        /\ db = r.pre

\* A finished daily claim of a user whose last successful claim was on day
\* pre[author].last_daily.
DailyAfterClaim(r) ==
    /\ r.pc = "done"
    /\ r.cmd = "daily"
    /\ Present(r.pre, r.author)
    /\ r.pre[r.author].last_daily # NULL

\* C12: after a successful daily claim on calendar day D, a further claim by
\* the same user on day D is rejected as on cooldown and changes nothing,
\* and a claim made on a later calendar day succeeds: it adds 500 and sets
\* last_daily to the day of the claim.
Thm_C12_DailyCooldown ==
    \A t \in Tasks :
        LET r == task[t]
            a == r.author IN
        DailyAfterClaim(r) =>
            /\ DateOf(now) = r.pre[a].last_daily =>
                 /\ r.res = "CooldownActive"
                 /\ db = r.pre
            /\ DateOf(r.at) > r.pre[a].last_daily =>
                 /\ r.res = "ok"
                 /\ db[a].balance = r.pre[a].balance + 500
                 /\ DateOf(r.at) <= db[a].last_daily
                 /\ db[a].last_daily <= DateOf(now)
                 /\ db[a].last_work = r.pre[a].last_work

\* A second claim on the day of the first, made after some time has passed,
\* was rejected.
Wit_C12_SameDayRejected ==
    \E t \in Tasks :
        LET r == task[t] IN
        /\ DailyAfterClaim(r)
        /\ r.at > 0
        /\ DateOf(r.at) = r.pre[r.author].last_daily
        /\ DateOf(now) = r.pre[r.author].last_daily
        /\ r.res = "CooldownActive"

\* A claim on the day after the first succeeded (coal: third command).
Seen_C12_NextDayAccepted ==
    \E t \in Tasks :
        LET r == task[t] IN
        /\ DailyAfterClaim(r)
        /\ DateOf(r.at) > r.pre[r.author].last_daily
        /\ r.res = "ok"
        /\ version = "coal"

\* The time of the last accepted work claim of the caller before command r,
\* NULL when there is none.
LastWork(r) ==
    IF Present(r.pre, r.author) THEN r.pre[r.author].last_work ELSE NULL

Seen_C13_AcceptedAtLimit ==
    \E t \in Tasks :
        LET r == task[t] IN
        /\ Done(t) /\ r.cmd = "work" /\ r.res = "ok"
        /\ LastWork(r) # NULL
        /\ r.at - LastWork(r) = 3600
        /\ db[r.author].last_work = r.at

\* The net change of the caller's balance over command r.
NetChange(r) == BalanceOf(db, r.author) - BalanceOf(r.pre, r.author)

\* C14: slots payout arithmetic: for an accepted stake s and an outcome whose
\* tier has multiplier m, the net change of the player's balance over the
\* whole operation is s*m - s when m is one of 100, 50, 10, 5, 3, 2, and -s
\* when there is no match.
CE_C14_SlotsNetPayout ==
    \A t \in Tasks :
        LET r == task[t] IN
        (Done(t) /\ r.cmd = "slots" /\ r.res = "ok") =>
            /\ r.mult \in {100, 50, 10, 5, 3, 2, 0}
            /\ NetChange(r) = IF r.mult # 0 THEN r.amt * r.mult - r.amt
                              ELSE 0 - r.amt

\* The seven rows of the payout table, by star count and equality of the
\* symbols that are not stars.
StarPositions(reels) == {i \in 1 .. 3 : reels[i] = 1}

OtherSymbols(reels) == {reels[i] : i \in (1 .. 3) \ StarPositions(reels)}

TableRow(i, reels) ==
    LET stars == Cardinality(StarPositions(reels))
        others == Cardinality(OtherSymbols(reels)) IN
    CASE i = 1 -> stars = 3
      [] i = 2 -> stars = 0 /\ others = 1
      [] i = 3 -> stars = 1 /\ others = 1
      [] i = 4 -> stars = 2
      [] i = 5 -> stars = 1 /\ others = 2
      [] i = 6 -> stars = 0 /\ others = 2
      [] i = 7 -> stars = 0 /\ others = 3

RowMultiplier == <<100, 50, 10, 5, 3, 2, 0>>

\* C15: for each of the 9^3 reel outcomes exactly one row of the payout
\* table holds, and the multiplier picked by the if/elif chain of the slots
\* code is the one of that row.
Thm_C15_TiersPartition ==
    \A t \in Tasks :
        task[t].cmd = "spin" =>
            LET rows == {i \in 1 .. 7 : TableRow(i, task[t].reels)} IN
            /\ Cardinality(rows) = 1
            /\ \A i \in rows : task[t].mult = RowMultiplier[i]

\* The reels showed one star and two equal other symbols, and the chain
\* picked the wild match.
Wit_C15_WildMatch ==
    \E t \in Tasks :
        /\ task[t].cmd = "spin"
        /\ TableRow(3, task[t].reels)
        /\ task[t].mult = 10

\* A finished game command whose stake the stake validation must refuse.
StakeInvalid(r) ==
    /\ r.pc = "done"
    /\ r.cmd \in Wagers
    /\ r.amt <= 0 \/ (r.cmd = "slots" /\ r.amt > 3000)

\* C16: every game command (coinflip, roll, slots) rejects a stake <= 0, and
\* slots rejects a stake > 3000, in each case without debiting or crediting
\* the player's balance.
CE_C16_StakeValidation ==
    \A t \in Tasks :
        LET r == task[t] IN
        StakeInvalid(r) =>
            /\ r.res \in Rejections
            /\ NetChange(r) = 0

\* C17: coin flip: for an accepted stake s the player's balance ends at the
\* balance before plus s when the guess equals the drawn side, and at the
\* balance before minus s otherwise.
Thm_C17_CoinflipPayout ==
    \A t \in Tasks :
        LET r == task[t] IN
        (Done(t) /\ r.cmd = "coinflip" /\ r.res = "ok") =>
            NetChange(r) = IF r.won THEN r.amt ELSE 0 - r.amt

\* A flip with stake 600 was won and paid 600.
Wit_C17_Won ==
    \E t \in Tasks :
        LET r == task[t] IN
        /\ Done(t) /\ r.cmd = "coinflip" /\ r.res = "ok"
        /\ r.won /\ r.amt = 600
        /\ BalanceOf(db, r.author) = BalanceOf(r.pre, r.author) + 600

\* C18: dice roll: with N dice and an accepted stake s the roll wins exactly
\* when the sum of the N dice is >= 3*N; on a win the balance ends at the
\* balance before - s + 5*s, on a loss at the balance before - s.
CE_C18_RollPayout ==
    \A t \in Tasks :
        LET r == task[t] IN
        (Done(t) /\ r.cmd = "roll" /\ r.res = "ok") =>
            /\ r.won <=> r.total >= 3 * r.dice
            /\ NetChange(r) = IF r.won THEN 5 * r.amt - r.amt ELSE 0 - r.amt

\* A finished robbery in which the attacker was caught; r.delta is the
\* drawn penalty.
RobCaughtDone(r) ==
    r.pc = "done" /\ r.cmd = "rob" /\ r.res = "ok" /\ ~r.won

\* C19: robbery, caught branch: with drawn penalty p in 100..1000 the
\* attacker's balance decreases by exactly min(p, attacker's balance), so it
\* does not go below zero, the target's balance is unchanged, and the
\* decrease is committed.
CE_C19_RobCaught ==
    \A t \in Tasks :
        LET r == task[t]
            a == r.author IN
        RobCaughtDone(r) =>
            /\ r.delta \in 100 .. 1000
            /\ BalanceOf(r.pre, a) - BalanceOf(db, a)
                 = Min(r.delta, BalanceOf(r.pre, a))
            /\ BalanceOf(db, a) >= 0
            /\ a # r.target =>
                 BalanceOf(db, r.target) = BalanceOf(r.pre, r.target)
            /\ BalanceOf(disk, a) = BalanceOf(db, a)

\* A finished robbery that succeeded; r.delta is the stolen amount.
RobSucceeded(r) ==
    r.pc = "done" /\ r.cmd = "rob" /\ r.res = "ok" /\ r.won

\* C20: robbery, success branch: the stolen amount x satisfies
\* 1 <= x <= min(target's balance, cap); the target's balance decreases by
\* exactly x and the attacker's increases by exactly x; the target's balance
\* stays >= 0; attacker and target are never the same account.
CE_C20_RobSuccess ==
    \A t \in Tasks :
        LET r == task[t]
            a == r.author
            b == r.target
            x == r.delta IN
        RobSucceeded(r) =>
            /\ a # b
            /\ 1 <= x /\ x <= Min(BalanceOf(r.pre, b), RobCap)
            /\ BalanceOf(db, b) = BalanceOf(r.pre, b) - x
            /\ BalanceOf(db, a) = BalanceOf(r.pre, a) + x
            /\ BalanceOf(db, b) >= 0

\* The commands that credit an account: a_give (iron: _add_balance(user,
\* amount)) and give, whose recipient side is the credit.
Credits == {"a_give", "give"}

\* C21: a credit to an absent account first creates it at the default
\* balance 1000 and then applies the change, so the account ends at
\* 1000 + delta; an existing account ends at balance + delta; no account
\* other than the ones the command names is touched.
Thm_C21_CreditCreatesAccount ==
    \A t \in Tasks :
        LET r == task[t]
            b == r.target IN
        (Done(t) /\ r.cmd \in Credits /\ r.res = "ok") =>
            /\ Present(db, b)
            /\ db[b].balance = (IF Present(r.pre, b) THEN r.pre[b].balance
                                ELSE DefaultBalance) + r.amt
            /\ \A u \in Users \ {r.author, b} :
                   /\ Present(db, u) <=> Present(r.pre, u)
                   /\ Present(db, u) => db[u] = r.pre[u]

Wit_C21_AbsentCredited ==
    \E t \in Tasks :
        /\ Done(t) /\ task[t].cmd \in Credits /\ task[t].res = "ok"
        /\ ~Present(task[t].pre, task[t].target)
        /\ db[task[t].target].balance = DefaultBalance + task[t].amt

\* The place of a user's row in the order of insertion.
InsertedAt(u) ==
    CHOOSE i \in 1 .. Len(balances) : balances[i].user_id = u

\* The rows of the table that the reply does not list.
Unlisted ==
    {j \in 1 .. Len(balances) :
        \A i \in 1 .. Len(board.rows) : board.rows[i] # balances[j]}

\* The reply lists min(10, number of accounts) distinct accounts of the
\* table, none poorer than an account left out, richest first.
TopTenRichestFirst ==
    LET L == board.rows IN
    /\ Len(L) = Min(LeaderboardLimit, Len(balances))
    /\ \A i \in 1 .. Len(L) : \E j \in 1 .. Len(balances) : balances[j] = L[i]
    /\ \A i, j \in 1 .. Len(L) : i # j => L[i].user_id # L[j].user_id
    /\ \A i, j \in 1 .. Len(L) : i < j => L[i].balance >= L[j].balance
    /\ \A j \in Unlisted : \A i \in 1 .. Len(L) :
           L[i].balance >= balances[j].balance
    /\ (Len(balances) = 3 /\ balances[1].balance = 50
        /\ balances[2].balance = 500 /\ balances[3].balance = 10) =>
           [i \in 1 .. 3 |-> L[i].balance] = <<500, 50, 10>>

\* C22 (as stated): the leaderboard returns at most 10 accounts, the ones
\* with the highest balances, in non-increasing balance order ([50, 500, 10]
\* gives [500, 50, 10]), and accounts with equal balances appear in
\* insertion order.
CE_C22_TiesInInsertionOrder ==
    board.sent =>
        /\ TopTenRichestFirst
        /\ \A i, j \in 1 .. Len(board.rows) :
               (i < j /\ board.rows[i].balance = board.rows[j].balance) =>
                   InsertedAt(board.rows[i].user_id)
                       < InsertedAt(board.rows[j].user_id)

\* C22 (amended): the leaderboard returns at most 10 accounts, the ones with
\* the highest balances, in non-increasing balance order; in iron accounts
\* with equal balances appear in ascending user_id order, whatever the order
\* of insertion.
Thm_C22_Leaderboard ==
    board.sent =>
        /\ TopTenRichestFirst
        /\ version = "iron" =>
             \A i, j \in 1 .. Len(board.rows) :
                 (i < j /\ board.rows[i].balance = board.rows[j].balance) =>
                     board.rows[i].user_id < board.rows[j].user_id

\* more than ten accounts, ten listed, and two of equal balance listed
\* against their order of insertion
Wit_C22_ElevenAccounts ==
    /\ board.sent
    /\ Len(balances) = MaxAccounts
    /\ Len(board.rows) = LeaderboardLimit
    /\ \E i, j \in 1 .. Len(board.rows) :
           /\ i < j
           /\ board.rows[i].balance = board.rows[j].balance
           /\ InsertedAt(board.rows[i].user_id)
                  > InsertedAt(board.rows[j].user_id)
    /\ \E j \in Unlisted : balances[j].balance < board.rows[1].balance

\* A wager whose stake is debited and committed and whose drawn win is not
\* yet credited.
StakeOnly(t) ==
    /\ task[t].cmd \in Wagers
    /\ task[t].pc = "c_credit"
    /\ task[t].amt > 0

\* A finished balance query of the same player that returned the balance as
\* it stands now.
Observes(u, t) ==
    /\ u # t
    /\ Done(u) /\ task[u].cmd = "balance" /\ task[u].res = "ok"
    /\ task[u].author = task[t].author
    /\ task[u].bal = BalanceOf(db, task[t].author)

\* C23: a wager has no externally observable intermediate state: no command
\* running concurrently with a coinflip, roll or slots wager can observe, or
\* commit, the player's balance with the stake debited but the outcome not
\* yet applied.
CE_C23_NoIntermediateState ==
    \A t \in Tasks :
        StakeOnly(t) =>
            /\ running = t
            /\ \A u \in Tasks : ~Observes(u, t)

\* C24: an accepted daily claim increases the caller's balance by exactly 500
\* and sets the caller's last_daily to the current date, and changes nothing
\* else: the caller's last_work and every other account's record are
\* unchanged.
Thm_C24_DailyEffect ==
    \A t \in Tasks :
        LET r == task[t]
            a == r.author IN
        (Done(t) /\ r.cmd = "daily" /\ r.res = "ok") =>
            /\ Present(db, a)
            /\ db[a].balance = BalanceOf(r.pre, a) + DailyAmount
            /\ DateOf(r.at) <= db[a].last_daily
            /\ db[a].last_daily <= DateOf(now)
            /\ db[a].last_work =
                   (IF Present(r.pre, a) THEN r.pre[a].last_work ELSE NULL)
            /\ \A u \in Users \ {a} :
                   /\ Present(db, u) <=> Present(r.pre, u)
                   /\ Present(db, u) => db[u] = r.pre[u]

\* a claim by a user who has worked before, with another account on record
Wit_C24_ClaimAfterWork ==
    \E t \in Tasks :
        LET r == task[t] IN
        /\ Done(t) /\ r.cmd = "daily" /\ r.res = "ok"
        /\ Present(r.pre, r.author)
        /\ r.pre[r.author].last_work # NULL
        /\ db[r.author].last_work = r.pre[r.author].last_work
        /\ db[r.author].last_daily # r.pre[r.author].last_work

\* A finished balance command for an account that had no record when the
\* command was dispatched: its one step is _get_balance.
FirstUse(t, a) ==
    /\ Done(t) /\ task[t].cmd = "balance" /\ task[t].author = a
    /\ ~Present(task[t].pre, a)

\* C25: when two commands that call _get_balance for the same account with
\* no record run concurrently (interleaved between the SELECT and the
\* INSERT), both calls return 1000 without raising, and exactly one record
\* for that account exists afterwards.
CE_C25_ConcurrentFirstUse ==
    \A a \in Users :
        (version = "iron" /\ FirstUse(1, a) /\ FirstUse(2, a)) =>
            /\ \A t \in Tasks : task[t].res = "ok" /\ task[t].bal = DefaultBalance
            /\ Present(db, a)

\* C26: in the coal version every economy command that executes an INSERT or
\* UPDATE on balances commits it before the command returns, on every
\* branch, so no balance change is left pending on the shared connection.
CE_C26_CommitBeforeReturn ==
    (version = "coal" /\ \A t \in Tasks : ~InFlight(t)) => disk = db

\* Slot 1 and slot 2 hold the settlement of one bet on one draw by the two
\* named commands.
Paired(cmd1, cmd2) ==
    /\ Done(1) /\ Done(2)
    /\ task[1].cmd = cmd1 /\ task[2].cmd = cmd2
    /\ task[1].reels # <<>> /\ task[1].reels = task[2].reels
    /\ task[1].amt = task[2].amt

\* C27: for every accepted stake and every reel outcome, coal's slots (debit
\* the bet, then credit winnings + bet) and iron's slots (single update by
\* delta) leave the player's balance changed by the same net amount.
CE_C27_SlotsSameNet ==
    (Paired("slots", "slots") /\ task[1].mult = task[2].mult) =>
        task[1].delta = task[2].delta

\* C28: in coal, for the same three drawn symbols and the same accepted bet,
\* scratch applies the same payout tier and the same balance change as
\* slots; in particular each star tier (three stars, two stars, one star)
\* is reachable in scratch.
CE_C28_ScratchPaysLikeSlots ==
    Paired("slots", "scratch") =>
        /\ task[2].mult = task[1].mult
        /\ task[2].delta = task[1].delta

\* The XP a stored row stands for: what the levels below the stored one
\* cost, plus the stored xp.
RECURSIVE SpentBelow(_)
SpentBelow(level) ==
    IF level <= 1 THEN 0 ELSE XpNeeded(level - 1) + SpentBelow(level - 1)

TotalXp(u) ==
    IF Present(levels, u) THEN SpentBelow(levels[u].level) + levels[u].xp
    ELSE 0

\* C29: XP is never lost: after any interleaving of concurrent _add_xp calls
\* for the same user, the user's total XP (the sum of _xp_needed(l) for l
\* below the stored level, plus the stored xp) equals the sum of all amounts
\* added, and the stored xp is less than _xp_needed(stored level).
CE_C29_XpNeverLost ==
    (\A t \in Tasks : xpTask[t].pc = "idle") =>
        \A u \in XpUsers :
            /\ TotalXp(u) = added
            /\ Present(levels, u) => levels[u].xp < XpNeeded(levels[u].level)

\* C30: a cancelled reminder is never delivered: once `reminders delete` has
\* removed a pending reminder and confirmed the cancellation to the user,
\* the polling loop does not send that reminder afterwards, for any
\* interleaving of the delete command with a poll that has already fetched
\* its list of due reminders.
CE_C30_CancelledNeverDelivered ==
    \A i, j \in 1 .. Len(outbox) :
        (i < j /\ outbox[i].kind = "cancelled") =>
            ~(outbox[j].kind = "reminder" /\ outbox[j].id = outbox[i].id)

=============================================================================
